---- MODULE Spec2Model ----
(***************************************************************************)
(* Raceify, src/App.tsx: the App component's state and its event handlers. *)
(* One action per handler or promise continuation.  A continuation runs    *)
(* from the resumption of its await to the next await (JavaScript runs the *)
(* microtasks of one task to completion), so a step of the model is one    *)
(* task of the browser's event loop.                                       *)
(***************************************************************************)
EXTENDS Integers, Sequences, FiniteSets, Bags, TLC

VARIABLES uploadedImage,    \* useState<string | null>            (line 101)
          generatedImages,  \* useState<Record<string, GeneratedImage>> (102)
          isLoading,        \* useState<boolean>                  (line 103)
          isDownloading,    \* useState<boolean>                  (line 104)
          appState,         \* 'idle' | 'image-uploaded' | ...    (line 105)
          generationMode,   \* useState<GenerationMode | null>    (line 106)
          uploads,          \* how many files the user has picked so far
          reads,            \* FileReaders whose onloadend has not fired yet
          runs,             \* startGeneration invocations not yet returned
          regens,           \* handleRegenerateItem invocations awaiting the call
          album,            \* the handleDownloadAlbum invocation awaiting createAlbumPage
          alert,            \* the alert() the task that ran last has shown, if any
          download          \* the file the task that ran last has downloaded, if any

vars == <<uploadedImage, generatedImages, isLoading, isDownloading, appState,
          generationMode, uploads, reads, runs, regens, album, alert, download>>

----------------------------------------------------------------------------
(* Bounds of the model *)

\* labels per list (the program's lists hold 8 each)
NumThemes == 3
\* files the user picks in one behaviour; the k-th file picked is image k
MaxUploads == 2

Files == 1..MaxUploads

----------------------------------------------------------------------------
(* Constants of the program *)

\* null, for uploadedImage (images are 1, 2, ...) and for generationMode
NoImage == 0

Null == "null"

ETHNICITIES == [i \in 1..NumThemes |-> i]

CREATIVE_THEMES == [i \in 1..NumThemes |-> NumThemes + i]

Range(s) == {s[i] : i \in DOMAIN s}

AllThemes == Range(ETHNICITIES) \cup Range(CREATIVE_THEMES)

GenerationMode == {"ethnicities", "creative"}

\* const themes = mode === 'ethnicities' ? ETHNICITIES : CREATIVE_THEMES
ThemesOf(mode) == IF mode = "ethnicities" THEN ETHNICITIES ELSE CREATIVE_THEMES

\* currentThemes: the tiles rendered
currentThemes ==
    IF generationMode = "ethnicities" THEN ETHNICITIES
    ELSE IF generationMode = "creative" THEN CREATIVE_THEMES
    ELSE << >>

concurrencyLimitWide == 2 + 1

\* const concurrencyLimit = 2
concurrencyLimit == 2

----------------------------------------------------------------------------
(* GeneratedImage records; an absent property is NoUrl / NoError *)

NoUrl == [img |-> NoImage, theme |-> 0]

NoError == ""

\* what generateTransformedImage(img, prompt, theme, mode) resolves to
ResultUrl(img, theme) == [img |-> img, theme |-> theme]

\* err.message, or "An unknown error occurred."
ErrorMessage == "An unknown error occurred."

PendingRecord == [status |-> "pending", url |-> NoUrl, error |-> NoError]

DoneRecord(url) == [status |-> "done", url |-> url, error |-> NoError]

ErrorRecord(msg) == [status |-> "error", url |-> NoUrl, error |-> msg]

EmptyImages == [t \in {} |-> PendingRecord]

SpreadOnly(prev, theme, rec) == [t \in {theme} |-> rec]

\* {...prev, [theme]: rec}
Spread(prev, theme, rec) ==
    [t \in DOMAIN prev \cup {theme} |-> IF t = theme THEN rec ELSE prev[t]]

\* generatedImages[theme]?.status
StatusOf(images, theme) ==
    IF theme \in DOMAIN images THEN images[theme].status ELSE "undefined"

InitialImagesShort(themes) == [t \in Range(Tail(themes)) |-> PendingRecord]

\* initialImages: every theme of the list pending
InitialImages(themes) == [t \in Range(themes) |-> PendingRecord]

\* the record a settled call writes for its theme
SettledRecord(img, theme, ok) ==
    IF ok THEN DoneRecord(ResultUrl(img, theme)) ELSE ErrorRecord(ErrorMessage)

----------------------------------------------------------------------------
(* The bulk queue and its workers *)

\* a worker whose while loop has ended (a working worker holds its theme)
Exited == 0

\* one pass of the worker's loop test: pop the head and issue its call, or leave
WorkerLoopSkipping(run, w) ==
    IF Len(run.queue) > 0
    THEN [run EXCEPT !.queue = IF Len(run.queue) > 1 THEN Tail(Tail(run.queue)) ELSE << >>,
                     !.workers[w] = Head(run.queue),
                     !.pops = Append(run.pops, <<w, Head(run.queue)>>)]
    ELSE [run EXCEPT !.workers[w] = Exited]

WorkerLoopFromTail(run, w) ==
    IF Len(run.queue) > 0
    THEN [run EXCEPT !.queue = SubSeq(run.queue, 1, Len(run.queue) - 1),
                     !.workers[w] = run.queue[Len(run.queue)],
                     !.pops = Append(run.pops, <<w, run.queue[Len(run.queue)]>>)]
    ELSE [run EXCEPT !.workers[w] = Exited]

WorkerLoop(run, w) ==
    IF Len(run.queue) > 0
    THEN [run EXCEPT !.queue = Tail(run.queue),
                     !.workers[w] = Head(run.queue),
                     !.pops = Append(run.pops, <<w, Head(run.queue)>>)]
    ELSE [run EXCEPT !.workers[w] = Exited]

\* Array(concurrencyLimit).fill(null).map(async () => ...): each worker runs
\* to its first await before the next one is created
RECURSIVE SpawnWorkers(_, _)
SpawnWorkers(run, w) ==
    IF w > concurrencyLimit THEN run
    ELSE SpawnWorkers(WorkerLoop(run, w), w + 1)

\* the closure of one startGeneration(mode) invocation
NewRun(img, mode) ==
    SpawnWorkers([img |-> img, mode |-> mode, queue |-> ThemesOf(mode),
                  workers |-> [w \in 1..concurrencyLimit |-> Exited],
                  pops |-> << >>, disturbed |-> FALSE], 1)

\* what the worker does after processTheme returns, whether the call failed or not
AfterProcessThemeAborting(run, w, ok) ==
    IF ok THEN WorkerLoop(run, w) ELSE [run EXCEPT !.workers[w] = Exited]

AfterProcessThemeOnce(run, w, ok) == [run EXCEPT !.workers[w] = Exited]

AfterProcessTheme(run, w, ok) == WorkerLoop(run, w)

\* Promise.all(workers) resolves
AnyWorkerExited(run) == \E w \in 1..concurrencyLimit : run.workers[w] = Exited

AllWorkersExited(run) == \A w \in 1..concurrencyLimit : run.workers[w] = Exited

InFlight(run) == {w \in 1..concurrencyLimit : run.workers[w] # Exited}

RemoveAt(s, i) == [j \in 1..(Len(s) - 1) |-> IF j < i THEN s[j] ELSE s[j + 1]]

\* every live invocation has seen the label mapping replaced under it
Disturb(rs) == [i \in DOMAIN rs |-> [rs[i] EXCEPT !.disturbed = TRUE]]

----------------------------------------------------------------------------
(* The album *)

NoAlbum == [active |-> FALSE, imageData |-> {}, mode |-> Null]

\* Object.entries(generatedImages).filter(done && url).reduce(...): the keys
ImageData(images) ==
    {t \in DOMAIN images : images[t].status = "done" /\ images[t].url # NoUrl}

\* Object.keys(imageData).length < themes.length
AlbumIncomplete(images, themes) == Cardinality(ImageData(images)) < Len(themes)

----------------------------------------------------------------------------
\* alert() blocks the event loop until it is dismissed: no alert is showing when
\* the next task runs
NoAlert == ""

\* link.download of the anchor handleDownloadAlbum clicks
NoDownload == ""

AlbumFile == "raceify-album.jpg"

Init ==
    /\ uploadedImage = NoImage
    /\ generatedImages = EmptyImages
    /\ isLoading = FALSE
    /\ isDownloading = FALSE
    /\ appState = "idle"
    /\ generationMode = Null
    /\ uploads = 0
    /\ reads = {}
    /\ runs = << >>
    /\ regens = EmptyBag
    /\ album = NoAlbum
    /\ alert = NoAlert
    /\ download = NoDownload

----------------------------------------------------------------------------
(* handleImageUpload: the file input is rendered while appState is 'idle' *)

HandleImageUpload ==
    /\ appState = "idle"
    /\ uploads < MaxUploads
    /\ uploads' = uploads + 1
    /\ reads' = reads \cup {uploads + 1}
    /\ alert' = NoAlert
    /\ download' = NoDownload
    /\ UNCHANGED <<uploadedImage, generatedImages, isLoading, isDownloading,
                   appState, generationMode, runs, regens, album>>

\* reader.onloadend: fires when the read succeeded (result is the data URL)
\* and when it failed (result is null)
ReaderOnLoadEnd(f, ok) ==
    /\ f \in reads
    /\ reads' = reads \ {f}
    /\ uploadedImage' = IF ok THEN f ELSE NoImage
    /\ appState' = "image-uploaded"
    /\ generatedImages' = EmptyImages
    /\ runs' = Disturb(runs)
    /\ alert' = NoAlert
    /\ download' = NoDownload
    /\ UNCHANGED <<isLoading, isDownloading, generationMode, uploads, regens, album>>

----------------------------------------------------------------------------
(* startGeneration: its buttons are rendered while appState is              *)
(* 'image-uploaded' and uploadedImage is set.  The handler runs up to the   *)
(* await of Promise.all: both workers have issued their first call.         *)

StartGeneration(mode) ==
    /\ appState = "image-uploaded"
    /\ uploadedImage # NoImage
    /\ IF uploadedImage = NoImage
       THEN /\ alert' = NoAlert
            /\ download' = NoDownload
            /\ UNCHANGED <<generationMode, isLoading, appState, generatedImages, runs>>
       ELSE /\ generationMode' = mode
            /\ isLoading' = TRUE
            /\ appState' = "generating"
            /\ generatedImages' = InitialImages(ThemesOf(mode))
            /\ runs' = Append(Disturb(runs), NewRun(uploadedImage, mode))
            /\ alert' = NoAlert
            /\ download' = NoDownload
    /\ UNCHANGED <<uploadedImage, isDownloading, uploads, reads, regens, album>>

\* the call of worker w of invocation i resolves (ok) or rejects: processTheme
\* writes the record, the worker loops, and when the last worker has left,
\* Promise.all resolves and startGeneration returns
BulkCallSettles(i, w, ok) ==
    /\ i \in DOMAIN runs
    /\ runs[i].workers[w] # Exited
    /\ LET run   == runs[i]
           theme == run.workers[w]
           after == AfterProcessTheme(run, w, ok)
           fin   == AllWorkersExited(after)
       IN  /\ generatedImages' =
                  Spread(generatedImages, theme, SettledRecord(run.img, theme, ok))
           /\ IF fin
              THEN /\ runs' = RemoveAt(runs, i)
                   /\ isLoading' = FALSE
                   /\ appState' = "results-shown"
              ELSE /\ runs' = [runs EXCEPT ![i] = after]
                   /\ UNCHANGED <<isLoading, appState>>
           /\ alert' = NoAlert
           /\ download' = NoDownload
    /\ UNCHANGED <<uploadedImage, isDownloading, generationMode, uploads, reads,
                   regens, album>>

----------------------------------------------------------------------------
(* handleRegenerateItem: onShake of a tile; the tiles of currentThemes are   *)
(* rendered while appState is 'generating' or 'results-shown'                *)

\* generatedImages[theme]?.status === 'pending'
NeverPending(images, theme) == FALSE

IsPending(images, theme) == StatusOf(images, theme) = "pending"

\* {...prev, [theme]: { status: 'pending' }}
MarkPendingKeeping(prev, theme) ==
    Spread(prev, theme, IF theme \in DOMAIN prev
                        THEN [prev[theme] EXCEPT !.status = "pending"]
                        ELSE PendingRecord)

MarkPending(prev, theme) == Spread(prev, theme, PendingRecord)

\* the closure of one handleRegenerateItem(theme) invocation: uploadedImage and
\* generationMode as rendered when it was invoked
RegenCall(theme) == [theme |-> theme, img |-> uploadedImage, mode |-> generationMode]

HandleRegenerateItem(theme) ==
    /\ appState \in {"generating", "results-shown"}
    /\ theme \in Range(currentThemes)
    /\ IF uploadedImage = NoImage \/ generationMode = Null
       THEN /\ alert' = NoAlert
            /\ download' = NoDownload
            /\ UNCHANGED <<generatedImages, regens>>
       ELSE IF IsPending(generatedImages, theme)
       THEN /\ alert' = NoAlert
            /\ download' = NoDownload
            /\ UNCHANGED <<generatedImages, regens>>
       ELSE /\ generatedImages' = MarkPending(generatedImages, theme)
            /\ regens' = regens (+) SetToBag({RegenCall(theme)})
            /\ alert' = NoAlert
            /\ download' = NoDownload
    /\ UNCHANGED <<uploadedImage, isLoading, isDownloading, appState, generationMode,
                   uploads, reads, runs, album>>

\* the call of a handleRegenerateItem invocation resolves (ok) or rejects
RegenCallSettles(c, ok) ==
    /\ BagIn(c, regens)
    /\ regens' = regens (-) SetToBag({c})
    /\ generatedImages' =
           Spread(generatedImages, c.theme, SettledRecord(c.img, c.theme, ok))
    /\ alert' = NoAlert
    /\ download' = NoDownload
    /\ UNCHANGED <<uploadedImage, isLoading, isDownloading, appState, generationMode,
                   uploads, reads, runs, album>>

----------------------------------------------------------------------------
(* handleReset: 'Different Photo' (image-uploaded) and 'Start Over' (results-shown) *)

HandleResetKeepingImages ==
    /\ \/ appState = "image-uploaded" /\ uploadedImage # NoImage
       \/ appState = "results-shown"
    /\ uploadedImage' = NoImage
    /\ appState' = "idle"
    /\ generationMode' = Null
    /\ runs' = Disturb(runs)
    /\ alert' = NoAlert
    /\ download' = NoDownload
    /\ UNCHANGED <<generatedImages, isLoading, isDownloading, uploads, reads, regens,
                   album>>

HandleReset ==
    /\ \/ appState = "image-uploaded" /\ uploadedImage # NoImage
       \/ appState = "results-shown"
    /\ uploadedImage' = NoImage
    /\ generatedImages' = EmptyImages
    /\ appState' = "idle"
    /\ generationMode' = Null
    /\ runs' = Disturb(runs)
    /\ alert' = NoAlert
    /\ download' = NoDownload
    /\ UNCHANGED <<isLoading, isDownloading, uploads, reads, regens, album>>

----------------------------------------------------------------------------
(* handleDownloadAlbum: its button is rendered while appState is             *)
(* 'results-shown' and is disabled while isDownloading                       *)

HandleDownloadAlbum ==
    /\ appState = "results-shown"
    /\ ~isDownloading
    /\ IF generationMode = Null
       THEN /\ alert' = NoAlert
            /\ download' = NoDownload
            /\ UNCHANGED <<isDownloading, album>>
       ELSE IF AlbumIncomplete(generatedImages, ThemesOf(generationMode))
       THEN \* alert; finally setIsDownloading(false)
            /\ alert' = "Please wait for all images to finish generating"
            /\ download' = NoDownload
            /\ isDownloading' = FALSE
            /\ UNCHANGED album
       ELSE /\ isDownloading' = TRUE
            /\ album' = [active |-> TRUE, imageData |-> ImageData(generatedImages),
                         mode |-> generationMode]
            /\ alert' = NoAlert
            /\ download' = NoDownload
    /\ UNCHANGED <<uploadedImage, generatedImages, isLoading, appState, generationMode,
                   uploads, reads, runs, regens>>

CreateAlbumPageSettlesNoFinally(ok) ==
    /\ album.active
    /\ album' = NoAlbum
    /\ isDownloading' = ok
    /\ alert' = IF ok THEN NoAlert ELSE "Sorry, there was an error creating your album"
    /\ download' = IF ok THEN AlbumFile ELSE NoDownload
    /\ UNCHANGED <<uploadedImage, generatedImages, isLoading, appState, generationMode,
                   uploads, reads, runs, regens>>

\* createAlbumPage resolves (the anchor is clicked: a file) or rejects (alert)
CreateAlbumPageSettles(ok) ==
    /\ album.active
    /\ album' = NoAlbum
    /\ isDownloading' = FALSE
    /\ alert' = IF ok THEN NoAlert ELSE "Sorry, there was an error creating your album"
    /\ download' = IF ok THEN AlbumFile ELSE NoDownload
    /\ UNCHANGED <<uploadedImage, generatedImages, isLoading, appState, generationMode,
                   uploads, reads, runs, regens>>

----------------------------------------------------------------------------
RegenCalls == [theme : AllThemes, img : Files, mode : GenerationMode]

Next ==
    \/ HandleImageUpload
    \/ \E f \in Files, ok \in BOOLEAN : ReaderOnLoadEnd(f, ok)
    \/ \E mode \in GenerationMode : StartGeneration(mode)
    \/ \E i \in 1..MaxUploads, w \in 1..concurrencyLimit, ok \in BOOLEAN :
          BulkCallSettles(i, w, ok)
    \/ \E theme \in AllThemes : HandleRegenerateItem(theme)
    \/ \E c \in RegenCalls, ok \in BOOLEAN : RegenCallSettles(c, ok)
    \/ HandleReset
    \/ HandleDownloadAlbum
    \/ \E ok \in BOOLEAN : CreateAlbumPageSettles(ok)

Spec == Init /\ [][Next]_vars

----------------------------------------------------------------------------
(* The same program with a user who leaves a running generation alone: no    *)
(* handler is invoked and no file load completes while a startGeneration is  *)
(* running.  Every issued generateTransformedImage call settles.             *)

Quiet == runs = << >>

BulkSettles ==
    \E i \in 1..MaxUploads, w \in 1..concurrencyLimit, ok \in BOOLEAN :
        BulkCallSettles(i, w, ok)

RegenSettles == \E c \in RegenCalls, ok \in BOOLEAN : RegenCallSettles(c, ok)

QuietNext ==
    \/ Quiet /\ HandleImageUpload
    \/ Quiet /\ \E f \in Files, ok \in BOOLEAN : ReaderOnLoadEnd(f, ok)
    \/ Quiet /\ \E mode \in GenerationMode : StartGeneration(mode)
    \/ BulkSettles
    \/ Quiet /\ \E theme \in AllThemes : HandleRegenerateItem(theme)
    \/ RegenSettles
    \/ Quiet /\ HandleReset
    \/ Quiet /\ HandleDownloadAlbum
    \/ \E ok \in BOOLEAN : CreateAlbumPageSettles(ok)

QuietSpec ==
    Init /\ [][QuietNext]_vars /\ WF_vars(BulkSettles) /\ WF_vars(RegenSettles)

----------------------------------------------------------------------------
(* The same program with a user who picks the next file only after the       *)
(* previous one has been read: a sub-behaviour of Spec, in which what         *)
(* outlives a session is the handleRegenerateItem calls in flight at a reset. *)

SerialNext ==
    \/ reads = {} /\ HandleImageUpload
    \/ \E f \in Files, ok \in BOOLEAN : ReaderOnLoadEnd(f, ok)
    \/ \E mode \in GenerationMode : StartGeneration(mode)
    \/ BulkSettles
    \/ \E theme \in AllThemes : HandleRegenerateItem(theme)
    \/ RegenSettles
    \/ HandleReset
    \/ HandleDownloadAlbum
    \/ \E ok \in BOOLEAN : CreateAlbumPageSettles(ok)

SerialSpec == Init /\ [][SerialNext]_vars

----------------------------------------------------------------------------
(* Vocabulary of the properties *)

Terminal == {"done", "error"}

\* the handleRegenerateItem calls in flight for theme t
RegensFor(bag, t) == {c \in BagToSet(bag) : c.theme = t}

\* a step issues a handleRegenerateItem call for theme t
RegenIssued(t) == \E c \in RegenCalls : c.theme = t /\ CopiesIn(c, regens') > CopiesIn(c, regens)

\* the themes a startGeneration invocation has popped so far, in order
Popped(run) == [k \in DOMAIN run.pops |-> run.pops[k][2]]

\* the themes worker w of an invocation has popped so far
PoppedBy(run, w) == {run.pops[k][2] : k \in {j \in DOMAIN run.pops : run.pops[j][1] = w}}

RECURSIVE BulkInFlight(_)
BulkInFlight(rs) ==
    IF rs = << >> THEN 0 ELSE Cardinality(InFlight(Head(rs))) + BulkInFlight(Tail(rs))

\* generateTransformedImage calls issued and not yet settled
CallsInFlight == BulkInFlight(runs) + BagCardinality(regens)

\* a step in which invocation i of startGeneration returns (sets 'results-shown')
Returns(i) == i \in DOMAIN runs /\ Len(runs') < Len(runs) /\ runs' = RemoveAt(runs, i)

----------------------------------------------------------------------------
\* C1: handleDownloadAlbum goes on to createAlbumPage only if every label of the
\* current mode's list has a 'done' record with a url: whenever a createAlbumPage
\* call is in flight, the imageData it was given holds every label of the list.
C1_ExportOnlyWhenAllDone ==
    album.active => Range(ThemesOf(album.mode)) \subseteq album.imageData

----------------------------------------------------------------------------
\* C2 as stated: at most two generateTransformedImage calls are in flight at any time.
C2_AtMostTwoCallsInFlight == CallsInFlight <= 2

\* C2 amended: of the calls issued by the workers of one startGeneration, at most
\* two are in flight at any time; handleRegenerateItem calls are outside the limit.
C2_AtMostTwoBulkCallsPerGeneration ==
    \A i \in DOMAIN runs : Cardinality(InFlight(runs[i])) <= 2

\* two bulk calls and a regeneration call in flight together
C2_Witness ==
    /\ Len(runs) = 1
    /\ Cardinality(InFlight(runs[1])) = 2
    /\ BagCardinality(regens) >= 1
    /\ CallsInFlight >= 3

----------------------------------------------------------------------------
\* C3 as stated: at the moment startGeneration sets appState to 'results-shown',
\* every label of the requested list is 'done' or 'error'.
C3_AllTerminalAtResultsShown ==
    [][\A i \in 1..MaxUploads :
          Returns(i) =>
             \A t \in Range(ThemesOf(runs[i].mode)) :
                StatusOf(generatedImages', t) \in Terminal]_vars

\* C3 amended: at that moment a label of the list is 'pending' only because of
\* work that is not this invocation's (a handleRegenerateItem call in flight for
\* it, or another startGeneration still running); and if the label mapping was
\* not replaced while the invocation ran, every label of the list has a record,
\* 'done' or 'error' or, with a regeneration call in flight, 'pending'.
C3_TerminalOrRegeneratingAtResultsShown ==
    [][\A i \in 1..MaxUploads :
          Returns(i) =>
             \A t \in Range(ThemesOf(runs[i].mode)) :
                /\ StatusOf(generatedImages', t) = "pending" =>
                      \/ RegensFor(regens', t) # {}
                      \/ runs' # << >>
                /\ ~runs[i].disturbed =>
                      \/ StatusOf(generatedImages', t) \in Terminal
                      \/ /\ StatusOf(generatedImages', t) = "pending"
                         /\ RegensFor(regens', t) # {}]_vars

\* the last bulk call of a generation is in flight while a regeneration
\* requested during that generation is in flight too: the invocation returns
\* as soon as the bulk call settles
C3_Witness ==
    /\ appState = "generating"
    /\ Len(runs) = 1
    /\ ~runs[1].disturbed
    /\ runs[1].queue = << >>
    /\ Cardinality(InFlight(runs[1])) = 1
    /\ \E c \in BagToSet(regens) :
          /\ c.img = uploadedImage
          /\ c.mode = generationMode
          /\ c.theme \in Range(Popped(runs[1]))
          /\ \A w \in InFlight(runs[1]) : runs[1].workers[w] # c.theme
          /\ StatusOf(generatedImages, c.theme) = "pending"

----------------------------------------------------------------------------
\* C4: while the record of a theme is 'pending', no handleRegenerateItem call is
\* issued for it, and handleRegenerateItem invoked for it leaves generatedImages,
\* appState, generationMode, uploadedImage and the calls in flight as they were.
C4_NoRegenerationWhilePending ==
    [][\A t \in AllThemes :
          StatusOf(generatedImages, t) = "pending" =>
             /\ ~RegenIssued(t)
             /\ HandleRegenerateItem(t) =>
                   UNCHANGED <<generatedImages, appState, generationMode, uploadedImage,
                               isLoading, regens, runs>>]_vars

\* the handler can be invoked for a tile that is pending: in the queue, in a
\* bulk call, and in an earlier regeneration
C4_Witness ==
    /\ appState = "generating"
    /\ uploadedImage # NoImage
    /\ Len(runs) = 1
    /\ runs[1].queue # << >>
    /\ \A t \in Range(runs[1].queue) : StatusOf(generatedImages, t) = "pending"
    /\ \E t \in Range(currentThemes) :
          /\ StatusOf(generatedImages, t) = "pending"
          /\ RegensFor(regens, t) # {}

----------------------------------------------------------------------------
\* C5: immediately after handleReset (the only step that makes appState 'idle'),
\* uploadedImage is null, generatedImages is empty, generationMode is null and
\* appState is 'idle'.
C5_ResetClears ==
    [][(appState # "idle" /\ appState' = "idle") =>
          /\ uploadedImage' = NoImage
          /\ generatedImages' = EmptyImages
          /\ generationMode' = Null]_vars

\* a reset from 'results-shown' with a regeneration call still in flight
C5_Witness ==
    /\ appState = "idle"
    /\ uploads >= 1
    /\ reads = {}
    /\ regens # EmptyBag
    /\ uploadedImage = NoImage
    /\ generatedImages = EmptyImages
    /\ generationMode = Null

----------------------------------------------------------------------------
----------------------------------------------------------------------------
\* C7: a rejected bulk call does not stop its worker or its sibling: a worker
\* leaves only when the queue is empty, every label of the list is in the queue
\* or has had exactly one bulk call issued for it, and a label whose bulk call
\* has settled is recorded 'done' or 'error' (an error with its message) unless
\* it is being regenerated.
C7_FailuresDoNotAbortSiblings ==
    \A i \in DOMAIN runs :
       LET run == runs[i]
           themes == Range(ThemesOf(run.mode))
       IN  /\ \A w \in DOMAIN run.workers : run.workers[w] = Exited => run.queue = << >>
           /\ \A t \in themes :
                 Cardinality({k \in DOMAIN run.pops : run.pops[k][2] = t})
                    = IF t \in Range(run.queue) THEN 0 ELSE 1
           /\ ~run.disturbed =>
                 \A t \in Range(Popped(run)) \ Range(run.workers) :
                    \/ RegensFor(regens, t) # {}
                    \/ /\ StatusOf(generatedImages, t) \in Terminal
                       /\ generatedImages[t].status = "error" =>
                             generatedImages[t].error = ErrorMessage

\* the first call of a worker failed and the worker has issued the next call
C7_Witness ==
    \E i \in DOMAIN runs, w \in 1..concurrencyLimit :
       /\ ~runs[i].disturbed
       /\ runs[i].img = uploadedImage
       /\ regens = EmptyBag
       /\ runs[i].workers[w] # Exited
       /\ \E t \in PoppedBy(runs[i], w) :
             /\ t # runs[i].workers[w]
             /\ StatusOf(generatedImages, t) = "error"
             /\ generatedImages[t].error # NoError

----------------------------------------------------------------------------
\* a step pops theme t from the queue of a running startGeneration
BulkIssued(t) ==
    /\ Len(runs') = Len(runs)
    /\ \E i \in DOMAIN runs :
          /\ Len(runs'[i].pops) > Len(runs[i].pops)
          /\ runs'[i].pops[Len(runs'[i].pops)][2] = t

\* C8: no retries are automatic.  Within a session (the step is no reset and no
\* file load), a label whose status is 'done' or 'error' keeps its record and
\* has no call issued for it, unless the step is an accepted
\* handleRegenerateItem for that label or starts a new generation.
C8_NoAutomaticRetries ==
    [][\A t \in AllThemes :
          ( /\ StatusOf(generatedImages, t) \in Terminal
            /\ ~RegenIssued(t)
            /\ Len(runs') <= Len(runs)
            /\ appState' \notin {"idle", "image-uploaded"} ) =>
             /\ t \in DOMAIN generatedImages'
             /\ generatedImages'[t] = generatedImages[t]
             /\ ~BulkIssued(t)]_vars

----------------------------------------------------------------------------
\* C9: every record of the label mapping is 'pending' with neither url nor
\* error, 'done' with a url and no error, or 'error' with a message and no url.
C9_ThreeShapes ==
    \A t \in DOMAIN generatedImages :
       LET r == generatedImages[t]
       IN  \/ r.status = "pending" /\ r.url = NoUrl /\ r.error = NoError
           \/ r.status = "done" /\ r.url # NoUrl /\ r.url.img # NoImage /\ r.error = NoError
           \/ r.status = "error" /\ r.url = NoUrl /\ r.error # NoError

\* a label whose generation had settled is being regenerated, another has
\* failed and a third is done
C9_Witness ==
    /\ appState = "results-shown"
    /\ runs = << >>
    /\ \E t \in Range(currentThemes) :
          /\ StatusOf(generatedImages, t) = "pending"
          /\ RegensFor(regens, t) # {}
    /\ \E t \in Range(currentThemes) : StatusOf(generatedImages, t) = "error"
    /\ \E t \in Range(currentThemes) : StatusOf(generatedImages, t) = "done"

----------------------------------------------------------------------------
\* C10: two workers drain the queue of one startGeneration without losing or
\* duplicating work: there are two workers, at most two bulk calls in flight,
\* the labels popped so far followed by the queue are the list in its order
\* (none popped twice, none skipped), and the labels in flight are the last
\* label each working worker popped.
C10_TwoWorkersDrainTheQueue ==
    \A i \in DOMAIN runs :
       LET run == runs[i]
       IN  /\ DOMAIN run.workers = 1..2
           /\ Cardinality(InFlight(run)) <= 2
           /\ Popped(run) \o run.queue = ThemesOf(run.mode)
           /\ \A k \in DOMAIN run.pops : run.pops[k][1] \in 1..2
           /\ \A w \in InFlight(run) :
                 /\ run.workers[w] \in PoppedBy(run, w)
                 /\ \A v \in InFlight(run) : v # w => run.workers[v] # run.workers[w]

\* the queue is drained, both workers popped a label and one of them two
C10_Witness ==
    \E i \in DOMAIN runs :
       /\ runs[i].queue = << >>
       /\ Cardinality(InFlight(runs[i])) = 2
       /\ PoppedBy(runs[i], 1) # {}
       /\ PoppedBy(runs[i], 2) # {}
       /\ \E w \in 1..2 : Cardinality(PoppedBy(runs[i], w)) >= 2

----------------------------------------------------------------------------
\* C11: the bulk calls of one startGeneration are issued in the order of the
\* label list: the k-th call issued is the call of the k-th label, so the call
\* of a label is issued no later than the call of any label after it in the
\* list, and the labels still queued are the rest of the list.
C11_CallsIssuedInListOrder ==
    \A i \in DOMAIN runs :
       LET run    == runs[i]
           themes == ThemesOf(run.mode)
       IN  /\ Len(run.pops) <= Len(themes)
           /\ \A k \in DOMAIN run.pops : run.pops[k][2] = themes[k]
           /\ \A k \in DOMAIN run.queue : run.queue[k] = themes[Len(run.pops) + k]

\* completions in another order: the call of the first label is still in
\* flight when the calls of the second and third labels have settled
C11_Witness ==
    /\ Len(runs) = 1
    /\ ~runs[1].disturbed
    /\ regens = EmptyBag
    /\ LET themes == ThemesOf(runs[1].mode)
       IN  /\ \E w \in InFlight(runs[1]) : runs[1].workers[w] = themes[1]
           /\ StatusOf(generatedImages, themes[1]) = "pending"
           /\ Len(runs[1].pops) >= 3
           /\ StatusOf(generatedImages, themes[2]) \in Terminal
           /\ StatusOf(generatedImages, themes[3]) \in Terminal

----------------------------------------------------------------------------
\* C12: while the startGeneration that wrote the current label mapping is still
\* running (its queue is not empty or one of its calls is in flight), appState
\* is 'generating' and isLoading is true; so appState is never 'results-shown'
\* with bulk work of the current generation outstanding.
C12_ResultsShownOnlyAfterWorkers ==
    \A i \in DOMAIN runs :
       ~runs[i].disturbed => appState = "generating" /\ isLoading

----------------------------------------------------------------------------
\* a step leaves the record of label u as it was (absent stays absent)
SameRecord(u) ==
    /\ u \in DOMAIN generatedImages' <=> u \in DOMAIN generatedImages
    /\ u \in DOMAIN generatedImages => generatedImages'[u] = generatedImages[u]

\* the generateTransformedImage calls in flight: label and source image
InFlightCalls ==
    {[theme |-> runs[p[1]].workers[p[2]], img |-> runs[p[1]].img] :
        p \in {q \in (DOMAIN runs) \X (1..concurrencyLimit) :
                  runs[q[1]].workers[q[2]] # Exited}}
    \cup {[theme |-> c.theme, img |-> c.img] : c \in BagToSet(regens)}

\* the step wrote rec for label t: the record of every other label is as it
\* was, and for every call still in flight for another label, its completion
\* after this one gives the mapping that the opposite order gives
WroteOnly(t, rec) ==
    /\ t \in DOMAIN generatedImages'
    /\ generatedImages'[t] = rec
    /\ \A u \in AllThemes \ {t} : SameRecord(u)
    /\ \A b \in InFlightCalls', okb \in BOOLEAN :
          b.theme # t =>
             Spread(generatedImages', b.theme, SettledRecord(b.img, b.theme, okb))
             = Spread(Spread(generatedImages, b.theme, SettledRecord(b.img, b.theme, okb)),
                      t, rec)

\* C13: the completion of a call for label t, of a bulk worker or of
\* handleRegenerateItem, writes the 'done' or 'error' record of t and leaves
\* the record of every other label as it was; its completion and that of a
\* call in flight for another label give the same mapping in either order.
C13_CompletionWritesOnlyItsLabel ==
    [][/\ \A i \in DOMAIN runs, w \in 1..concurrencyLimit, ok \in BOOLEAN :
             BulkCallSettles(i, w, ok) =>
                WroteOnly(runs[i].workers[w],
                          SettledRecord(runs[i].img, runs[i].workers[w], ok))
       /\ \A c \in BagToSet(regens), ok \in BOOLEAN :
             RegenCallSettles(c, ok) =>
                WroteOnly(c.theme, SettledRecord(c.img, c.theme, ok))]_vars

\* a bulk call and a regeneration call are in flight for two labels beside a
\* label whose call has settled
C13_Witness ==
    /\ Len(runs) = 1
    /\ ~runs[1].disturbed
    /\ \E w \in InFlight(runs[1]), c \in BagToSet(regens) :
          /\ c.theme # runs[1].workers[w]
          /\ StatusOf(generatedImages, c.theme) = "pending"
          /\ StatusOf(generatedImages, runs[1].workers[w]) = "pending"
          /\ \E u \in Range(currentThemes) \ {c.theme, runs[1].workers[w]} :
                StatusOf(generatedImages, u) \in Terminal

----------------------------------------------------------------------------
\* C14: startGeneration(mode) is invoked with an uploaded image and replaces
\* the label mapping by one whose labels are exactly those of mode's list, all
\* 'pending', sets generationMode to mode, 'generating' and isLoading, and the
\* calls it issues (with the uploaded image) are calls of labels of that
\* mapping; with no uploaded image it changes nothing, and no invocation begins
\* to issue calls in a state with no uploaded image.
C14_StartGenerationInitialises ==
    [][/\ \A mode \in GenerationMode :
             StartGeneration(mode) =>
                IF uploadedImage = NoImage
                THEN UNCHANGED <<uploadedImage, generatedImages, isLoading, appState,
                                 generationMode, runs, regens>>
                ELSE /\ DOMAIN generatedImages' = Range(ThemesOf(mode))
                     /\ \A t \in Range(ThemesOf(mode)) :
                           generatedImages'[t] = PendingRecord
                     /\ generationMode' = mode
                     /\ appState' = "generating"
                     /\ isLoading'
                     /\ Len(runs') = Len(runs) + 1
                     /\ LET run == runs'[Len(runs')]
                        IN  /\ run.img = uploadedImage
                            /\ run.mode = mode
                            /\ Popped(run) \o run.queue = ThemesOf(mode)
                            /\ \A w \in InFlight(run) :
                                  StatusOf(generatedImages', run.workers[w]) = "pending"
       /\ Len(runs') > Len(runs) =>
             /\ uploadedImage # NoImage
             /\ \E mode \in GenerationMode : StartGeneration(mode)]_vars

\* a second session has just started a generation of the other list while a
\* call of the first session is still in flight
C14_Witness ==
    /\ appState = "generating"
    /\ uploads = 2
    /\ Len(runs) = 1
    /\ ~runs[1].disturbed
    /\ runs[1].img = uploadedImage
    /\ Len(runs[1].pops) = concurrencyLimit
    /\ generationMode = "creative"
    /\ generatedImages = [t \in Range(CREATIVE_THEMES) |-> PendingRecord]
    /\ \E c \in BagToSet(regens) : c.mode = "ethnicities"

----------------------------------------------------------------------------
\* C15: isDownloading is true exactly while a handleDownloadAlbum invocation
\* awaits createAlbumPage.  An invocation with a generation mode set that is
\* refused by the completeness check shows the alert, produces no file and
\* leaves isDownloading false; when createAlbumPage settles isDownloading
\* becomes false; if it failed, the alert is shown, no file is produced and no
\* other state changes; if it succeeded, the album file is downloaded.
C15_DownloadEndsNotDownloading ==
    [][/\ isDownloading <=> album.active
       /\ isDownloading' <=> album'.active
       /\ (HandleDownloadAlbum /\ generationMode # Null) =>
             IF AlbumIncomplete(generatedImages, ThemesOf(generationMode))
             THEN /\ ~isDownloading'
                  /\ alert' # NoAlert
                  /\ download' = NoDownload
                  /\ ~album'.active
             ELSE /\ isDownloading'
                  /\ album'.active
                  /\ download' = NoDownload
       /\ \A ok \in BOOLEAN :
             CreateAlbumPageSettles(ok) =>
                /\ ~isDownloading'
                /\ ~album'.active
                /\ download' = IF ok THEN AlbumFile ELSE NoDownload
                /\ ~ok => alert' # NoAlert
                /\ UNCHANGED <<uploadedImage, generatedImages, isLoading, appState,
                               generationMode, uploads, reads, runs, regens>>]_vars

\* createAlbumPage has just failed for a complete album
C15_Witness ==
    /\ appState = "results-shown"
    /\ generationMode # Null
    /\ alert = "Sorry, there was an error creating your album"
    /\ download = NoDownload
    /\ ~isDownloading
    /\ ~album.active
    /\ ~AlbumIncomplete(generatedImages, ThemesOf(generationMode))

----------------------------------------------------------------------------
\* C16: whenever appState is 'idle' or 'image-uploaded' the label mapping is
\* empty: after handleReset or a file load no record appears before the next
\* startGeneration.
C16_MappingEmptyUntilGeneration ==
    appState \in {"idle", "image-uploaded"} => generatedImages = EmptyImages

----------------------------------------------------------------------------
\* C17: the labels of the mapping are labels of the current generation mode's
\* list, and every 'done' record holds the result of a call made for its label
\* with the currently uploaded image.
C17_MappingBelongsToCurrentSession ==
    /\ DOMAIN generatedImages \subseteq Range(currentThemes)
    /\ \A t \in DOMAIN generatedImages :
          generatedImages[t].status = "done" =>
             generatedImages[t].url = ResultUrl(uploadedImage, t)

----------------------------------------------------------------------------
\* the number of generateTransformedImage calls in flight for label t
CallsInFlightFor(t) ==
    Cardinality({p \in (DOMAIN runs) \X (1..concurrencyLimit) :
                    runs[p[1]].workers[p[2]] = t})
    + BagCardinality([c \in RegensFor(regens, t) |-> regens[c]])

\* C18: at most one generateTransformedImage call is in flight for any label.
C18_OneCallPerLabel == \A t \in AllThemes : CallsInFlightFor(t) <= 1

----------------------------------------------------------------------------
\* label t is still in the queue of a running startGeneration
Queued(t) == \E i \in DOMAIN runs : t \in Range(runs[i].queue)

\* C19: the record of a label is 'pending' if and only if the label is in the
\* bulk queue or a call for it is in flight.
C19_PendingIffWorkOutstanding ==
    \A t \in DOMAIN generatedImages :
       generatedImages[t].status = "pending" <=> (Queued(t) \/ CallsInFlightFor(t) > 0)

----------------------------------------------------------------------------
\* C20: uploadedImage is null exactly when appState is 'idle', generationMode
\* is set exactly when appState is 'generating' or 'results-shown', and
\* isLoading is true exactly when appState is 'generating'.
C20_ModeVariablesConsistent ==
    /\ uploadedImage = NoImage <=> appState = "idle"
    /\ generationMode # Null <=> appState \in {"generating", "results-shown"}
    /\ isLoading <=> appState = "generating"

====
